---- MODULE Spec2Model ----
(***************************************************************************)
(* rss-slack: the article lifecycle of the batch runs.                     *)
(*                                                                         *)
(*   fetch-and-merge run   scripts/fetch_articles.py                       *)
(*   publish run           scripts/publish_articles.py                     *)
(*   reminder run          scripts/send_reminder.py                        *)
(*   legacy run            main.py                                         *)
(*                                                                         *)
(* Time is counted in hours.  A uuid4 is modelled as the next value of a   *)
(* counter (a fresh value on every call).  An ISO timestamp is modelled by *)
(* the instant it denotes: isoformat() followed by fromisoformat() returns *)
(* the same instant, and the strings the code produces sort like their     *)
(* instants.                                                               *)
(***************************************************************************)
EXTENDS Integers, Sequences, FiniteSets, TLC

VARIABLES
    feeds,          \* feeds.json: feed id -> enabled
    articles,       \* data/articles.json: the list 'articles'
    lastUpdated,    \* data/articles.json: 'last_updated'
    published,      \* data/published.json: the list 'published_articles'
    history,        \* data/published.json: the list 'history'
    now,            \* the clock (hours)
    uuids,          \* number of uuid4 values drawn so far
    posts,          \* number of messages the transport has accepted so far
    lastOp,         \* the last run made: "fetch", "publish", "reminder", "legacy"
    exitCode,       \* exit status of that run
    postAttempts,   \* post attempts made by that run
    request,        \* the article ids given to the last publish run
    aged,           \* the links the last fetch run met and left out as too old
    again,          \* what the last fetch run, run once more on the same feed
                    \* data at the same instant, persists
    everStored,     \* per link, the first <<link, id, fetched>> persisted
    log,            \* every PublishRecord ever appended, oldest first
    runs,           \* publish runs (legacy runs) made so far
    reminded,       \* the list get_unpublished_articles returned to the last
                    \* reminder run
    counted,        \* the article count that run handed to send_reminder_dm
    delivered,      \* how that run ended: "no_user", "raised", "no_token",
                    \* "accepted" or "refused" ("none" before the first run)
    failing,        \* the feeds whose fetch or parse failed in the last
                    \* fetch run
    absentRun,      \* what that run persists when the failing feeds are
                    \* not in feeds.json
    cleanRun,       \* what that run persists when the feeds serve the same
                    \* entries less the malformed ones
    tracked,        \* data/tracking.json: the guids of 'posted_items'
    stats,          \* data/tracking.json: 'stats'
    trace,          \* the post attempts of the last legacy run, in order
    settings,       \* feeds.json: 'settings'
    scored,         \* the last call of calculate_relevance: what it was
                    \* given, what it returned and whether main went on
    refusedEarlier, \* the guids whose post was refused in a legacy run
                    \* before the last one
    resolved,       \* the last feed entry whose identity was resolved, with
                    \* what the fetch run stores for it and the guid of the
                    \* legacy run
    procs,          \* the publish runs in progress: per process its place
                    \* in main and its local variables
    overlapped,     \* a publish run has loaded the published store between
                    \* the load and the save of another
    submitted       \* the argument of the last update-feeds run

vars == <<feeds, articles, lastUpdated, published, history, now, uuids, posts,
          lastOp, exitCode, postAttempts, request, aged, again, everStored,
          log, runs, reminded, counted, delivered, failing, absentRun,
          cleanRun, tracked, stats, trace, settings, scored, refusedEarlier,
          resolved, procs, overlapped, submitted>>

fetchVars == <<articles, lastUpdated, uuids, aged, again, everStored>>
publishVars == <<published, history, posts, request, log, runs>>
reminderVars == <<reminded, counted, delivered>>
faultVars == <<failing, absentRun, cleanRun>>
legacyVars == <<tracked, stats, trace, settings, scored, refusedEarlier>>
otherVars == <<resolved, procs, overlapped, submitted>>

(***************************************************************************)
(* Bounds of the model.                                                    *)
(***************************************************************************)
MaxTicks == 1       \* the clock advances at most this often
MaxIds == 2         \* uuid4 values drawn in one behaviour
MaxEntries == 2     \* entries served by all feeds together in one fetch run
MaxRuns == 2        \* publish runs in one behaviour
MaxRequest == 2     \* article ids given to one publish run
MaxStored == 2      \* articles in the store a reminder run reads
MaxLegacyEntries == 3   \* entries served by all feeds in one legacy run
MaxLimit == 1       \* the largest max_posts_per_run of the settings
MaxFeeds == 2       \* feeds in a submitted configuration
MaxRefused == 2     \* the latest call of a run that the transport can refuse

(***************************************************************************)
(* Program constants.                                                      *)
(***************************************************************************)
RetentionDays == 7
Retention == RetentionDays * 24
HistoryLimit == 30
LookbackDays == 1
Lookback == LookbackDays * 24
DefaultMaxPosts == 10
TrackLimit == 1000
EntryCap == 20
DefaultMinScore == [num |-> 1, den |-> 2]

\* No reminder run was made yet.
ReminderIdle == reminded = <<>> /\ counted = 0 /\ delivered = "none"

\* No fetch run was made yet.
FaultIdle == failing = {} /\ absentRun = <<>> /\ cleanRun = <<>>

\* No identity was resolved, no publish run is in progress and no
\* update-feeds run was made yet.
OtherIdle ==
    /\ resolved = <<>>
    /\ procs = <<>>
    /\ overlapped = FALSE
    /\ submitted = <<>>

\* No legacy run was made yet: load_tracking without a tracking file, and
\* the settings main falls back to.
LegacyIdle ==
    /\ tracked = {}
    /\ stats = [total_items_posted |-> 0, last_run_posted |-> 0]
    /\ trace = <<>>
    /\ settings = [min_relevance_score |-> DefaultMinScore,
                   max_posts_per_run |-> DefaultMaxPosts]
    /\ scored = <<>>
    /\ refusedEarlier = {}

Absent == "<absent>"            \* a key the feed entry does not have
FeedOrder == <<"f1", "f2">>     \* the order of the feeds in feeds.json
FeedIds == {"f1", "f2"}

NoDate == [state |-> "absent", at |-> 0]
BadDate == [state |-> "invalid", at |-> 0]
Date(t) == [state |-> "valid", at |-> t]

Range(s) == { s[i] : i \in 1..Len(s) }
SeqsUpTo(S, n) == UNION { [1..k -> S] : k \in 0..n }

(***************************************************************************)
(* Fetch-and-merge run: scripts/fetch_articles.py.                         *)
(***************************************************************************)

\* load_existing_articles: the lookup by link; a later record of the list
\* replaces an earlier one with the same link.
LastIndexOf(store, link) ==
    CHOOSE i \in 1..Len(store) :
        /\ store[i].link = link
        /\ \A j \in (i + 1)..Len(store) : store[j].link # link

LoadExistingArticles(store) ==
    [link \in {store[i].link : i \in 1..Len(store)} |->
        store[LastIndexOf(store, link)]]

\* parse_published_date: published_parsed, else updated_parsed, each skipped
\* when it is missing or no valid calendar time, else the current instant.
ParsePublishedDate(entry, t) ==
    IF entry.published.state = "valid" THEN entry.published.at
    ELSE IF entry.updated.state = "valid" THEN entry.updated.at
    ELSE t

\* entry.get('link', entry.get('id', ''))
EntryLink(entry) ==
    IF entry.link # Absent THEN entry.link
    ELSE IF entry.id # Absent THEN entry.id
    ELSE ""

\* datetime.fromisoformat(article['published']...): the instant, or the
\* exception raised.  A stored record may lack the key 'published'; a record
\* whose 'published' string denotes no instant carries the string under
\* published_text.
StoredPublished(article) ==
    IF "published" \in DOMAIN article
    THEN [error |-> "none", at |-> article.published]
    ELSE IF "published_text" \in DOMAIN article
    THEN [error |-> "ValueError", at |-> 0]
    ELSE [error |-> "KeyError", at |-> 0]

\* A summary that is no string: summary.replace raises.
NotText == "<not text>"
IsText(entry) == ~("summary" \in DOMAIN entry /\ entry.summary = NotText)

\* A stored article is admitted again whatever its age.
ExistingAlwaysCurrent(existing, cutoff) == TRUE

\* existing_date >= cutoff_date
ExistingIsCurrent(existing, cutoff) == existing.published >= cutoff

\* published_date < cutoff_date
OlderThanCutoff(published_date, cutoff) == published_date < cutoff

NewArticle(uuid, feed, link, published_date, t) ==
    [id |-> uuid, feed_id |-> feed, link |-> link,
     published |-> published_date, fetched |-> t]

\* The loop over parsed_feed.entries.  acc.arts is the list 'articles' of the
\* call, acc.uuids the number of uuid4 values drawn, acc.aged the links left
\* out as too old; acc.raised says that an exception left the loop.
RECURSIVE ProcessEntries(_, _, _, _, _, _)
ProcessEntries(entries, feed, cutoff, existing, t, acc) ==
    IF entries = <<>> THEN acc
    ELSE
        LET entry == Head(entries)
            rest == Tail(entries)
            link == EntryLink(entry)
            published_date == ParsePublishedDate(entry, t)
        IN
        IF link = "" THEN
            ProcessEntries(rest, feed, cutoff, existing, t, acc)
        ELSE IF link \in DOMAIN existing THEN
            IF StoredPublished(existing[link]).error # "none" THEN
                [acc EXCEPT !.raised = TRUE]
            ELSE IF ExistingIsCurrent(existing[link], cutoff) THEN
                ProcessEntries(rest, feed, cutoff, existing, t,
                    [acc EXCEPT !.arts = Append(@, existing[link])])
            ELSE
                ProcessEntries(rest, feed, cutoff, existing, t,
                    [acc EXCEPT !.aged = @ \cup {link}])
        ELSE IF OlderThanCutoff(published_date, cutoff) THEN
            ProcessEntries(rest, feed, cutoff, existing, t,
                [acc EXCEPT !.aged = @ \cup {link}])
        ELSE IF ~IsText(entry) THEN
            [acc EXCEPT !.raised = TRUE]
        ELSE
            ProcessEntries(rest, feed, cutoff, existing, t,
                [acc EXCEPT
                    !.arts = Append(@, NewArticle(acc.uuids + 1, feed, link,
                                                  published_date, t)),
                    !.uuids = @ + 1])

\* A feed that fails empties the list of the run.
FailureDropsAll(feed, served, cutoff, existing, t, acc) ==
    IF ~served.ok THEN [acc EXCEPT !.arts = <<>>, !.failed = @ \cup {feed}]
    ELSE
        LET got == ProcessEntries(served.entries, feed, cutoff, existing, t,
                                  [acc EXCEPT !.arts = <<>>])
        IN IF got.raised
           THEN [acc EXCEPT !.arts = <<>>, !.uuids = got.uuids,
                            !.failed = @ \cup {feed}]
           ELSE [got EXCEPT !.arts = acc.arts \o @]

\* fetch_feed_articles: the articles of one feed; a failure to fetch or parse
\* the feed, or an exception in the loop over its entries, is caught and
\* the feed contributes nothing (acc.failed collects such feeds).
FetchFeedArticles(feed, served, cutoff, existing, t, acc) ==
    IF ~served.ok THEN [acc EXCEPT !.failed = @ \cup {feed}]
    ELSE
        LET got == ProcessEntries(served.entries, feed, cutoff, existing, t,
                                  [acc EXCEPT !.arts = <<>>])
        IN IF got.raised
           THEN [acc EXCEPT !.uuids = got.uuids, !.failed = @ \cup {feed}]
           ELSE [got EXCEPT !.arts = acc.arts \o @]

\* all_articles.sort(key=published, reverse=True): stable, newest first.
RECURSIVE InsertByPublished(_, _)
InsertByPublished(a, s) ==
    IF s = <<>> THEN <<a>>
    ELSE IF Head(s).published >= a.published
         THEN <<Head(s)>> \o InsertByPublished(a, Tail(s))
         ELSE <<a>> \o s

RECURSIVE SortNewestFirst(_)
SortNewestFirst(s) ==
    IF s = <<>> THEN <<>>
    ELSE InsertByPublished(s[Len(s)], SortNewestFirst(SubSeq(s, 1, Len(s) - 1)))

\* main: all_articles.extend(articles) over the enabled feeds, in the order
\* of feeds.json.
RECURSIVE FetchAll(_, _, _, _, _, _)
FetchAll(order, served, cutoff, existing, t, acc) ==
    IF order = <<>> THEN acc
    ELSE FetchAll(Tail(order), served, cutoff, existing, t,
                  FetchFeedArticles(Head(order), served[Head(order)], cutoff,
                                    existing, t, acc))

\* enabled_feeds
EnabledFeeds(cfg) == SelectSeq(FeedOrder, LAMBDA f : cfg[f])

\* main of fetch_articles.py: the list the run persists (arts), the uuid4
\* values drawn up to its end (uuids).
FetchMain(cfg, store, served, t, drawn) ==
    LET merged == FetchAll(EnabledFeeds(cfg), served, t - Retention,
                           LoadExistingArticles(store), t,
                           [arts |-> <<>>, uuids |-> drawn, aged |-> {},
                            raised |-> FALSE, failed |-> {}])
    IN [merged EXCEPT !.arts = SortNewestFirst(@)]

(***************************************************************************)
(* What a feed can serve at instant t: an entry with a link and no date    *)
(* (it gets the instant of the fetch), an entry with an id only, an        *)
(* invalid published time and an updated time at the edge of the window,   *)
(* and an entry with both a link and an id that is older than the window.  *)
(***************************************************************************)
FeedEntries(t) ==
    { [link |-> "l1", id |-> Absent, published |-> NoDate, updated |-> NoDate],
      [link |-> Absent, id |-> "l2", published |-> BadDate,
       updated |-> Date(t - Retention)],
      [link |-> "l1", id |-> "l2", published |-> Date(t - Retention - 1),
       updated |-> Date(t)] }

Failed == [ok |-> FALSE, entries |-> <<>>]

\* A feed fails, or serves up to n entries.  Nothing is drawn for a feed
\* that is not enabled: it is never fetched.
Serves(enabled, t, n) ==
    IF enabled
    THEN {Failed} \cup [ok : {TRUE}, entries : SeqsUpTo(FeedEntries(t), n)]
    ELSE {Failed}

Stored(store) ==
    { <<store[i].link, store[i].id, store[i].fetched>> : i \in 1..Len(store) }

\* The first record of a link is remembered; of two records of one link that
\* are first persisted by the same run, both are.
Remember(ever, store) ==
    ever \cup { e \in Stored(store) : \A x \in ever : x[1] # e[1] }

FetchRun ==
    \E s1 \in Serves(feeds["f1"], now, MaxEntries) :
    \E s2 \in Serves(feeds["f2"], now, MaxEntries - Len(s1.entries)) :
    \E out \in {FetchMain(feeds, articles,
                          [f \in FeedIds |-> IF f = "f1" THEN s1 ELSE s2],
                          now, uuids)} :
    \E twice \in {FetchMain(feeds, out.arts,
                            [f \in FeedIds |-> IF f = "f1" THEN s1 ELSE s2],
                            now, out.uuids)} :
        /\ twice.uuids <= MaxIds
        /\ articles' = out.arts
        /\ lastUpdated' = now
        /\ uuids' = out.uuids
        /\ aged' = out.aged
        /\ again' = twice.arts
        /\ everStored' = Remember(everStored, out.arts)
        /\ lastOp' = "fetch"
        /\ exitCode' = 0
        /\ postAttempts' = 0
        /\ UNCHANGED <<feeds, now>>
        /\ UNCHANGED <<publishVars, reminderVars, faultVars, legacyVars, otherVars>>

\* update_feeds.py replaces feeds.json; here the second feed is switched on
\* or off.
UpdateFeeds ==
    /\ feeds' = [feeds EXCEPT !["f2"] = ~@]
    /\ UNCHANGED <<now, lastOp, exitCode, postAttempts>>
    /\ UNCHANGED fetchVars
    /\ UNCHANGED <<publishVars, reminderVars, faultVars, legacyVars, otherVars>>

\* Time passes between two runs: one retention window at a time.
Tick ==
    /\ now + Retention <= MaxTicks * Retention
    /\ now' = now + Retention
    /\ UNCHANGED <<feeds, lastOp, exitCode, postAttempts>>
    /\ UNCHANGED fetchVars
    /\ UNCHANGED <<publishVars, reminderVars, faultVars, legacyVars, otherVars>>

InitFetch ==
    /\ feeds = [f \in FeedIds |-> TRUE]
    /\ articles = <<>>
    /\ lastUpdated = 0
    /\ published = <<>>
    /\ history = <<>>
    /\ now = 0
    /\ uuids = 0
    /\ posts = 0
    /\ lastOp = "none"
    /\ exitCode = 0
    /\ postAttempts = 0
    /\ request = <<>>
    /\ aged = {}
    /\ again = <<>>
    /\ everStored = {}
    /\ log = <<>>
    /\ runs = 0
    /\ ReminderIdle
    /\ FaultIdle
    /\ OtherIdle
    /\ LegacyIdle

NextFetch == FetchRun \/ UpdateFeeds \/ Tick

SpecFetch == InitFetch /\ [][NextFetch]_vars

(***************************************************************************)
(* Claims about the fetch-and-merge run.                                   *)
(***************************************************************************)

\* C1: after any fetch-and-merge run the persisted article list holds at most
\* one record per link, also when a link occurs more than once among the
\* fetched entries.
C1_OneRecordPerLink ==
    \A i, j \in 1..Len(articles) :
        articles[i].link = articles[j].link => i = j

\* C2: the fetch-and-merge run, run a second time on the same feed data at
\* the same instant, persists the list the first run persisted.
C2_FetchIdempotent == lastOp = "fetch" => again = articles

\* C3: no persisted article has a published time earlier than the time of
\* the fetch run that persisted the list, less seven days.
C3_WindowInvariant ==
    \A i \in 1..Len(articles) :
        articles[i].published >= lastUpdated - Retention

\* A fetch run has persisted articles and has left out, as too old, an entry
\* whose link was stored by an earlier run and is no longer stored.
C3_Witness ==
    /\ lastOp = "fetch"
    /\ lastUpdated = now
    /\ articles # <<>>
    /\ \E e \in everStored :
        /\ e[1] \in aged
        /\ e[3] < now
        /\ \A i \in 1..Len(articles) : articles[i].link # e[1]

\* C4: a step removes a stored article only when its published time is older
\* than the retention window: a stored article that is still within the
\* window stays stored.
C4_RemovedOnlyWhenOld ==
    [][\A i \in 1..Len(articles) :
          articles[i].published >= now' - Retention =>
              \E j \in 1..Len(articles') : articles'[j].link = articles[i].link]_vars

\* C5: once a record of a link has been stored with some id and fetched
\* time, every stored record of that link carries that id and fetched time.
C5_IdentityImmutable ==
    \A i \in 1..Len(articles) :
        \A e \in everStored :
            e[1] = articles[i].link =>
                e[2] = articles[i].id /\ e[3] = articles[i].fetched

(***************************************************************************)
(* Publish run: scripts/publish_articles.py.                               *)
(***************************************************************************)

\* load_articles: the keys of the lookup by id.
StoreIds(store) == { store[i].id : i \in 1..Len(store) }

\* articles_to_publish, by id: the requested ids found in the article store,
\* in the order of the request.
ArticlesToPublish(store, article_ids) ==
    SelectSeq(article_ids, LAMBDA id : id \in StoreIds(store))

\* The run goes on with no article to publish.
NeverNothing(found) == FALSE

\* if not articles_to_publish
NothingToPublish(found) == found = <<>>

\* Only the ids found in the article store are added.
ExtendWithFound(pub, article_ids, found) == pub \o found

\* published_articles.extend(article_ids)
ExtendPublished(pub, article_ids, found) == pub \o article_ids

\* The list is kept as it is.
KeepDuplicates(list) == {list}

\* list(set(list)): the members of the list, once each, in any order.
RemoveDuplicates(list) ==
    { s \in [1..Cardinality(Range(list)) -> Range(list)] : Range(s) = Range(list) }

\* The entry carries the reference of the message before.
RecordOfEarlierPost(article_ids, slack_ts, t) ==
    [date |-> t \div 24, article_ids |-> article_ids,
     article_count |-> Len(article_ids), slack_ts |-> slack_ts - 1,
     published_at |-> t]

\* The entry appended to 'history'.
PublishRecord(article_ids, slack_ts, t) ==
    [date |-> t \div 24, article_ids |-> article_ids,
     article_count |-> Len(article_ids), slack_ts |-> slack_ts,
     published_at |-> t]

\* The oldest records are kept.
KeepOldest(h) == SubSeq(h, 1, IF Len(h) < HistoryLimit THEN Len(h) ELSE HistoryLimit)

\* history[-30:]
KeepRecent(h) ==
    IF Len(h) <= HistoryLimit THEN h
    ELSE SubSeq(h, Len(h) - HistoryLimit + 1, Len(h))

\* The ids a publish run can be given: one that the article store of this
\* specification holds, and one that no store holds (uuids count from 1).
RequestIds == {0, 1}

\* main of publish_articles.py.  The transport either accepts the one post
\* and returns the reference of the message, or raises its API error.
PublishRun ==
    /\ runs < MaxRuns
    /\ \E article_ids \in SeqsUpTo(RequestIds, MaxRequest), accepted \in BOOLEAN :
        LET found == ArticlesToPublish(articles, article_ids)
            record == PublishRecord(article_ids, posts + 1, now)
        IN
        /\ runs' = runs + 1
        /\ request' = article_ids
        /\ lastOp' = "publish"
        /\ IF NothingToPublish(found) THEN
               /\ exitCode' = 1
               /\ postAttempts' = 0
               /\ UNCHANGED <<published, history, posts, log>>
           ELSE IF ~accepted THEN
               /\ exitCode' = 1
               /\ postAttempts' = 1
               /\ UNCHANGED <<published, history, posts, log>>
           ELSE
               /\ exitCode' = 0
               /\ postAttempts' = 1
               /\ posts' = posts + 1
               /\ published' \in
                      RemoveDuplicates(ExtendPublished(published, article_ids, found))
               /\ history' = KeepRecent(Append(history, record))
               /\ log' = Append(log, record)
        /\ UNCHANGED <<feeds, now>>
        /\ UNCHANGED <<fetchVars, reminderVars, faultVars, legacyVars, otherVars>>

\* The published store after n publish runs of the first stored article.
Earlier(n) == [i \in 1..n |-> PublishRecord(<<1>>, i, 0)]

\* The article store of the publish specification: empty, or as the first
\* fetch run persists it when each feed serves one entry.
FirstFetch ==
    FetchMain([f \in FeedIds |-> TRUE], <<>>,
              [f \in FeedIds |->
                  [ok |-> TRUE,
                   entries |-> <<CHOOSE e \in FeedEntries(0) :
                                    EntryLink(e) = (IF f = "f1" THEN "l1" ELSE "l2")
                                    /\ ParsePublishedDate(e, 0) >= 0 - Retention>>]],
              0, 0)

InitPublish ==
    /\ feeds = [f \in FeedIds |-> TRUE]
    /\ \E store \in {<<>>, FirstFetch.arts} :
        /\ articles = store
        /\ again = store
        /\ uuids = Len(store)
        /\ everStored = Stored(store)
        /\ lastOp = IF store = <<>> THEN "none" ELSE "fetch"
    /\ lastUpdated = 0
    /\ aged = {}
    /\ now = 0
    /\ \E n \in {0, HistoryLimit - 1} :
        /\ history = Earlier(n)
        /\ log = Earlier(n)
        /\ posts = n
        /\ published = IF n = 0 THEN <<>> ELSE <<1>>
    /\ exitCode = 0
    /\ postAttempts = 0
    /\ request = <<>>
    /\ runs = 0
    /\ ReminderIdle
    /\ FaultIdle
    /\ OtherIdle
    /\ LegacyIdle

NextPublish == PublishRun

SpecPublish == InitPublish /\ [][NextPublish]_vars

NoDuplicates(list) == \A i, j \in 1..Len(list) : list[i] = list[j] => i = j

(***************************************************************************)
(* Claims about the publish run.                                           *)
(***************************************************************************)

\* C6: no id occurs twice in published_articles after a successful publish
\* run; a successful publish run whose ids are all in published_articles
\* already leaves it with the same members and the same size, and appends
\* one PublishRecord that lists the ids of the request.
C6_PublishIdempotent ==
    [][(runs' = runs + 1 /\ exitCode' = 0) =>
          /\ NoDuplicates(published')
          /\ Range(request') \subseteq Range(published) =>
                /\ Range(published') = Range(published)
                /\ Len(published') = Len(published)
                /\ Len(log') = Len(log) + 1
                /\ log'[Len(log')].article_ids = request'
                /\ history' # <<>>
                /\ history'[Len(history')] = log'[Len(log')]]_vars

\* A publish run has succeeded on ids that earlier PublishRecords list.
C6_Witness ==
    /\ lastOp = "publish"
    /\ exitCode = 0
    /\ request # <<>>
    /\ \A k \in 1..Len(request) :
        \E i \in 1..(Len(log) - 1) : request[k] \in Range(log[i].article_ids)

C8_HistoryWithinPublished ==
    \A i \in 1..Len(history) :
        /\ \A k \in 1..Len(history[i].article_ids) :
              \E j \in 1..Len(published) :
                  published[j] = history[i].article_ids[k]
        /\ history[i].article_count = Len(history[i].article_ids)

\* A publish run of two ids has succeeded and its record is retained.
C8_Witness ==
    /\ lastOp = "publish"
    /\ exitCode = 0
    /\ Len(request) >= 2
    /\ history # <<>>
    /\ history[Len(history)].article_ids = request

\* C9: after a successful publish run, neither published_articles nor the
\* appended PublishRecord holds an id of the request that is not in the
\* article store, and the count of the record is the number of ids found.
C9_UnknownIdsDropped ==
    (lastOp = "publish" /\ exitCode = 0) =>
        LET unknown == { id \in Range(request) :
                            \A i \in 1..Len(articles) : articles[i].id # id }
            record == history[Len(history)]
        IN
        /\ \A j \in 1..Len(published) : published[j] \notin unknown
        /\ \A k \in 1..Len(record.article_ids) : record.article_ids[k] \notin unknown
        /\ record.article_count =
              Cardinality({ k \in 1..Len(request) : request[k] \notin unknown })

\* C10: a publish run none of whose ids is in the article store exits
\* non-zero, makes no post attempt and leaves published_articles and the
\* history as they were.
C10_FailsFast ==
    [][(/\ runs' = runs + 1
        /\ \A k \in 1..Len(request') :
              \A i \in 1..Len(articles) : articles[i].id # request'[k]) =>
          /\ exitCode' # 0
          /\ postAttempts' = 0
          /\ posts' = posts
          /\ published' = published
          /\ history' = history]_vars

\* A publish run was given ids, none of them in the non-empty article store,
\* and has failed.
C10_Witness ==
    /\ lastOp = "publish"
    /\ request # <<>>
    /\ articles # <<>>
    /\ \A k \in 1..Len(request) :
          \A i \in 1..Len(articles) : articles[i].id # request[k]
    /\ exitCode = 1
    /\ postAttempts = 0

\* C20: a publish run makes at most one post attempt; when the post is not
\* accepted the run exits non-zero and published_articles and the history
\* are as they were; they change only in a run whose one post was accepted,
\* and the record that run appends carries the reference of that message.
C20_WriteAfterPost ==
    [][(runs' = runs + 1) =>
          /\ postAttempts' <= 1
          /\ (posts' = posts) =>
                /\ exitCode' # 0
                /\ published' = published
                /\ history' = history
          /\ (posts' # posts) =>
                /\ postAttempts' = 1
                /\ exitCode' = 0
                /\ posts' = posts + 1
                /\ Len(log') = Len(log) + 1
                /\ history' # <<>>
                /\ history'[Len(history')] = log'[Len(log')]
                /\ history'[Len(history')].slack_ts = posts']_vars

\* The one post of a publish run was attempted and not accepted.
C20_Witness ==
    /\ lastOp = "publish"
    /\ postAttempts = 1
    /\ exitCode = 1
    /\ history # <<>>

(***************************************************************************)
(* The reminder run: scripts/send_reminder.py.                             *)
(***************************************************************************)

\* Only a string that denotes no instant is tolerated.
CaughtValueError(error) == error = "ValueError"

\* except (ValueError, KeyError)
Caught(error) == error \in {"ValueError", "KeyError"}

\* The article has to be later than the cutoff.
AfterCutoff(published_date, cutoff) == published_date > cutoff

\* published_date >= cutoff
SinceCutoff(published_date, cutoff) == published_date >= cutoff

\* The loop of get_unpublished_articles.  acc.list is 'unpublished';
\* acc.raised says that an exception left the loop.
RECURSIVE UnpublishedLoop(_, _, _, _)
UnpublishedLoop(store, published_ids, cutoff, acc) ==
    IF store = <<>> \/ acc.raised THEN acc
    ELSE
        LET article == Head(store)
            parsed == StoredPublished(article)
        IN
        UnpublishedLoop(Tail(store), published_ids, cutoff,
            IF article.id \in published_ids THEN acc
            ELSE IF parsed.error = "none" THEN
                IF SinceCutoff(parsed.at, cutoff)
                THEN [acc EXCEPT !.list = Append(@, article)]
                ELSE acc
            ELSE IF Caught(parsed.error) THEN acc
            ELSE [acc EXCEPT !.raised = TRUE])

\* get_unpublished_articles, called at instant t.
GetUnpublishedArticles(store, published_ids, t) ==
    UnpublishedLoop(store, published_ids, t - Lookback,
                    [list |-> <<>>, raised |-> FALSE])

\* main of send_reminder.py.  user_id and token say whether the user id and
\* the bot token are configured; the transport accepts the message or
\* raises its API error, which send_reminder_dm turns into a return value
\* that main does not read.
ReminderRun ==
    \E user_id \in BOOLEAN, token \in BOOLEAN, accepted \in BOOLEAN :
    \E got \in {GetUnpublishedArticles(articles, Range(published), now)} :
        /\ lastOp' = "reminder"
        /\ IF ~user_id THEN
               /\ reminded' = <<>>
               /\ counted' = 0
               /\ delivered' = "no_user"
               /\ postAttempts' = 0
               /\ exitCode' = 1
           ELSE IF got.raised THEN
               /\ reminded' = <<>>
               /\ counted' = 0
               /\ delivered' = "raised"
               /\ postAttempts' = 0
               /\ exitCode' = 1
           ELSE IF ~token THEN
               /\ reminded' = got.list
               /\ counted' = Len(got.list)
               /\ delivered' = "no_token"
               /\ postAttempts' = 0
               /\ exitCode' = 1
           ELSE
               /\ reminded' = got.list
               /\ counted' = Len(got.list)
               /\ delivered' = IF accepted THEN "accepted" ELSE "refused"
               /\ postAttempts' = 1
               /\ exitCode' = 0
        /\ UNCHANGED <<feeds, now>>
        /\ UNCHANGED <<fetchVars, publishVars, faultVars, legacyVars, otherVars>>

(***************************************************************************)
(* The articles a reminder run can find in the store at instant t: fetched *)
(* 2 hours ago and dated then; fetched 2 hours ago with a source date 30   *)
(* hours ago; fetched and dated exactly 24 hours ago; fetched and dated 30 *)
(* hours ago; and two records edited by hand, one without 'published' and  *)
(* one whose 'published' is no timestamp.                                  *)
(***************************************************************************)
StoredArticles(t) ==
    { [id |-> 1, feed_id |-> "f1", link |-> "l1",
       published |-> t - 2, fetched |-> t - 2],
      [id |-> 2, feed_id |-> "f1", link |-> "l2",
       published |-> t - Lookback - 6, fetched |-> t - 2],
      [id |-> 3, feed_id |-> "f2", link |-> "l3",
       published |-> t - Lookback, fetched |-> t - Lookback],
      [id |-> 4, feed_id |-> "f2", link |-> "l4",
       published |-> t - Lookback - 6, fetched |-> t - Lookback - 6],
      [id |-> 5, feed_id |-> "f1", link |-> "l5", fetched |-> t - 2],
      [id |-> 6, feed_id |-> "f2", link |-> "l6",
       published_text |-> "yesterday", fetched |-> t - 2] }

\* The published lists of the reminder specification.
PublishedLists == {<<>>, <<1>>, <<3>>, <<3, 1>>}

InitReminder ==
    /\ feeds = [f \in FeedIds |-> TRUE]
    /\ now = 0
    /\ \E store \in SeqsUpTo(StoredArticles(0), MaxStored) :
        /\ \A i, j \in 1..Len(store) : store[i].id = store[j].id => i = j
        /\ articles = store
        /\ again = store
        /\ everStored = Stored(store)
    /\ uuids = Cardinality(StoredArticles(0))
    /\ lastUpdated = 0
    /\ aged = {}
    /\ \E ids \in PublishedLists :
        /\ published = ids
        /\ history = IF ids = <<>> THEN <<>> ELSE <<PublishRecord(ids, 1, 0 - 1)>>
        /\ log = history
        /\ posts = Len(history)
    /\ lastOp = "none"
    /\ exitCode = 0
    /\ postAttempts = 0
    /\ request = <<>>
    /\ runs = 0
    /\ ReminderIdle
    /\ FaultIdle
    /\ OtherIdle
    /\ LegacyIdle

NextReminder == ReminderRun

SpecReminder == InitReminder /\ [][NextReminder]_vars

\* The records of the store that have a 'published' timestamp.
WellFormed(store) == SelectSeq(store, LAMBDA a : "published" \in DOMAIN a)

(***************************************************************************)
(* Claims about the reminder run.                                          *)
(***************************************************************************)

\* C11: of the stored articles that are not published (and have a
\* published timestamp), the reminder lists those fetched 24 hours before
\* the call or later, whatever their published time, and no other.
C11_FetchedWithinLookback ==
    (lastOp = "reminder" /\ postAttempts = 1) =>
        \A i \in 1..Len(articles) :
            ("published" \in DOMAIN articles[i]
             /\ articles[i].id \notin Range(published)) =>
                (articles[i].fetched >= now - Lookback
                 <=> articles[i] \in Range(reminded))

\* C12: get_unpublished_articles returns, in stored order, exactly the
\* stored articles whose id is not in published_articles and whose
\* published time is 24 hours before the call or later; the count handed to
\* the message is the length of that list.
C12_ExactlyUnpublishedRecent ==
    (lastOp = "reminder" /\ delivered \in {"no_token", "accepted", "refused"}) =>
        /\ reminded =
              SelectSeq(articles,
                        LAMBDA a : /\ a.id \notin Range(published)
                                   /\ "published" \in DOMAIN a
                                   /\ a.published >= now - Lookback)
        /\ counted = Len(reminded)

\* A reminder run has listed an article dated exactly 24 hours before the
\* call and has left out another article of the store.
C12_Witness ==
    /\ lastOp = "reminder"
    /\ postAttempts = 1
    /\ Len(reminded) < Len(articles)
    /\ counted = 1
    /\ \E i \in 1..Len(reminded) : reminded[i].published = now - Lookback

\* C21: a reminder run whose message the transport refuses exits non-zero.
C21_RefusedReminderFails ==
    (lastOp = "reminder" /\ delivered = "refused") => exitCode # 0

FaultyEntries ==
    { [link |-> "l1", id |-> Absent, published |-> NoDate, updated |-> NoDate],
      [link |-> "l2", id |-> Absent, published |-> NoDate, updated |-> NoDate,
       summary |-> NotText] }

\* A feed fails as a whole, or serves up to n entries.
ServesFaulty(n) ==
    {Failed} \cup [ok : {TRUE}, entries : SeqsUpTo(FaultyEntries, n)]

\* The entry makes the loop raise: its stored counterpart has no published
\* timestamp that fromisoformat accepts, or it is new, not older than the
\* cutoff, and its summary is no string.
Raises(entry, existing, cutoff, t) ==
    LET link == EntryLink(entry) IN
    /\ link # ""
    /\ IF link \in DOMAIN existing
       THEN StoredPublished(existing[link]).error # "none"
       ELSE /\ ~(ParsePublishedDate(entry, t) < cutoff)
            /\ ~IsText(entry)

\* The same feed data without the entries that make the loop raise.
Cleaned(served, existing, cutoff, t) ==
    [f \in FeedIds |->
        [served[f] EXCEPT
            !.entries = SelectSeq(@, LAMBDA e : ~Raises(e, existing, cutoff, t))]]

\* A fetch-and-merge run, with what it persists when the feeds that fail
\* are not configured and when no entry makes the loop raise.
FaultyFetchRun ==
    \E s1 \in ServesFaulty(MaxEntries) :
    \E s2 \in ServesFaulty(MaxEntries - Len(s1.entries)) :
    \E served \in {[f \in FeedIds |-> IF f = "f1" THEN s1 ELSE s2]} :
    \E out \in {FetchMain(feeds, articles, served, now, uuids)} :
    \E twice \in {FetchMain(feeds, out.arts, served, now, out.uuids)} :
    \E absent \in {FetchMain([f \in FeedIds |-> feeds[f] /\ f \notin out.failed],
                             articles, served, now, uuids)} :
    \E clean \in {FetchMain(feeds, articles,
                            Cleaned(served, LoadExistingArticles(articles),
                                    now - Retention, now),
                            now, uuids)} :
        /\ twice.uuids <= MaxIds
        /\ clean.uuids <= MaxIds
        /\ articles' = out.arts
        /\ lastUpdated' = now
        /\ uuids' = out.uuids
        /\ aged' = out.aged
        /\ again' = twice.arts
        /\ everStored' = Remember(everStored, out.arts)
        /\ failing' = out.failed
        /\ absentRun' = absent.arts
        /\ cleanRun' = clean.arts
        /\ lastOp' = "fetch"
        /\ exitCode' = 0
        /\ postAttempts' = 0
        /\ UNCHANGED <<feeds, now>>
        /\ UNCHANGED <<publishVars, reminderVars, legacyVars, otherVars>>

\* The store is empty, or holds one record edited by hand whose 'published'
\* is no timestamp.
InitFault ==
    /\ feeds = [f \in FeedIds |-> TRUE]
    /\ \E store \in {<<>>, <<[id |-> 1, feed_id |-> "f1", link |-> "l1",
                               published_text |-> "yesterday",
                               fetched |-> 0 - 1]>>} :
        /\ articles = store
        /\ again = store
        /\ uuids = Len(store)
        /\ everStored = Stored(store)
    /\ lastUpdated = 0
    /\ published = <<>>
    /\ history = <<>>
    /\ now = 0
    /\ posts = 0
    /\ lastOp = "none"
    /\ exitCode = 0
    /\ postAttempts = 0
    /\ request = <<>>
    /\ aged = {}
    /\ log = <<>>
    /\ runs = 0
    /\ ReminderIdle
    /\ FaultIdle
    /\ OtherIdle
    /\ LegacyIdle

NextFault == FaultyFetchRun

SpecFault == InitFault /\ [][NextFault]_vars

\* An article less its id, which is drawn anew in every run.
Content(a) ==
    [feed_id |-> a.feed_id, link |-> a.link, published |-> a.published,
     fetched |-> a.fetched]

Contents(store) == [i \in 1..Len(store) |-> Content(store[i])]

\* C17: a fetch run in which feeds fail still persists its list, and the
\* list holds, id apart, the articles it holds when the failing feeds are
\* not configured: the other feeds contribute what they contribute without
\* them and the failing feeds contribute nothing.
C17_FeedFailureIsolated ==
    (lastOp = "fetch" /\ failing # {}) =>
        /\ lastUpdated = now
        /\ exitCode = 0
        /\ Contents(articles) = Contents(absentRun)

\* The second feed has failed and the run has persisted an article of the
\* first.
C17_Witness ==
    /\ lastOp = "fetch"
    /\ failing = {"f2"}
    /\ \E i \in 1..Len(articles) :
          articles[i].feed_id = "f1" /\ articles[i].fetched = lastUpdated

\* C18: an entry that makes the loop raise does not keep the other entries
\* of its feed out: every article the run persists when the feeds serve the
\* same entries less the raising ones is, id apart, persisted.
C18_EntryFailureIsolated ==
    lastOp = "fetch" =>
        \A i \in 1..Len(cleanRun) :
            \E j \in 1..Len(articles) :
                Content(articles[j]) = Content(cleanRun[i])

(***************************************************************************)
(* The legacy run: main.py.  A text is the sequence of its characters, a   *)
(* score the fraction num/den.                                             *)
(***************************************************************************)

\* str.lower, on the characters that occur here.
LowerChar(c) ==
    CASE c = "R" -> "r"
      [] c = "U" -> "u"
      [] c = "T" -> "t"
      [] c = "W" -> "w"
      [] c = "A" -> "a"
      [] c = "S" -> "s"
      [] c = "M" -> "m"
      [] OTHER -> c

Lower(text) == [i \in 1..Len(text) |-> LowerChar(text[i])]

\* keyword in content
Contains(keyword, content) ==
    \E i \in 0..(Len(content) - Len(keyword)) :
        SubSeq(content, i + 1, i + Len(keyword)) = keyword

\* content = f"{title} {summary}", both lowercased
EntryText(entry) == Lower(entry.title) \o <<" ">> \o Lower(entry.summary)

One == [num |-> 1, den |-> 1]

\* a < b, for fractions with positive denominators
Less(a, b) == a.num * b.den < b.num * a.den

\* calculate_relevance
CalculateRelevance(entry, keywords) ==
    IF keywords = <<>> THEN One
    ELSE
        LET content == EntryText(entry)
            matches == Cardinality({ k \in 1..Len(keywords) :
                                       Contains(Lower(keywords[k]), content) })
            score == [num |-> matches, den |-> Len(keywords)]
        IN IF Less(One, score) THEN One ELSE score

\* Only a score above the minimum is relevant.
AboveMinimum(relevance, min_score) == Less(min_score, relevance)

\* not (relevance < min_score)
Relevant(relevance, min_score) == ~Less(relevance, min_score)

Rust == <<"r", "u", "s", "t">>
Wasm == <<"w", "a", "s", "m">>

Titles ==
    { <<>>, <<"R", "u", "s", "t">>, <<"t", "r", "u", "s", "t">>, <<"r", "u">>,
      <<"W", "A", "S", "M">> }

Summaries == { <<>>, <<"s", "t">>, Wasm }

KeywordLists ==
    { <<>>, <<Rust>>, <<Rust, Wasm>>, <<<<"R", "U", "S", "T">>, Wasm>>,
      <<Wasm, Wasm>> }

MinScores == { [num |-> 1, den |-> 2], [num |-> 3, den |-> 4], One }

\* One call of calculate_relevance and the test main makes of its result.
ScoreEntry ==
    \E title \in Titles, summary \in Summaries, keywords \in KeywordLists,
       min_score \in MinScores :
        LET entry == [title |-> title, summary |-> summary]
            relevance == CalculateRelevance(entry, keywords)
        IN
        /\ scored' = <<[entry |-> entry, keywords |-> keywords,
                        min_score |-> min_score, relevance |-> relevance,
                        accepted |-> Relevant(relevance, min_score)]>>
        /\ UNCHANGED <<feeds, now, lastOp, exitCode, postAttempts>>
        /\ UNCHANGED <<tracked, stats, trace, settings, refusedEarlier>>
        /\ UNCHANGED <<fetchVars, publishVars, reminderVars, faultVars, otherVars>>

InitRelevance == InitFetch

NextRelevance == ScoreEntry

SpecRelevance == InitRelevance /\ [][NextRelevance]_vars

\* Two characters are the same letter, whatever their case.
SameLetter(a, b) ==
    \/ a = b
    \/ \E p \in { <<"R", "r">>, <<"U", "u">>, <<"S", "s">>, <<"T", "t">>,
                   <<"W", "w">>, <<"A", "a">>, <<"M", "m">> } :
          (a = p[1] /\ b = p[2]) \/ (a = p[2] /\ b = p[1])

\* The keyword occurs in the text, whatever the case of either.
Occurs(keyword, text) ==
    \E i \in 0..(Len(text) - Len(keyword)) :
        \A k \in 1..Len(keyword) : SameLetter(keyword[k], text[i + k])

\* C16: calculate_relevance returns 1 when the source has no keywords and
\* otherwise the number of keywords that occur, case apart, in the title, a
\* space and the summary, divided by the number of keywords, a value from
\* 0 to 1; main goes on with the entry exactly when the score is not below
\* the minimum; with the keywords rust and wasm and a text that holds rust
\* only, the score is 1/2, accepted at the minimum 1/2 and rejected above.
C16_RelevanceScore ==
    \A n \in 1..Len(scored) :
        LET call == scored[n]
            text == call.entry.title \o <<" ">> \o call.entry.summary
            hits == Cardinality({ k \in 1..Len(call.keywords) :
                                    Occurs(call.keywords[k], text) })
        IN
        /\ call.keywords = <<>> => call.relevance = One
        /\ call.keywords # <<>> =>
              /\ call.relevance.den = Len(call.keywords)
              /\ call.relevance.num = hits
        /\ 0 <= call.relevance.num
        /\ call.relevance.num <= call.relevance.den
        /\ call.accepted <=>
              call.relevance.num * call.min_score.den
                  >= call.min_score.num * call.relevance.den
        /\ (call.keywords = <<Rust, Wasm>> /\ Occurs(Rust, text)
                /\ ~Occurs(Wasm, text)) =>
              /\ call.relevance = [num |-> 1, den |-> 2]
              /\ call.accepted <=> call.min_score = [num |-> 1, den |-> 2]

\* The keywords are rust and wasm, the title holds Rust and no wasm, and the
\* entry is accepted at the minimum 1/2.
C16_Witness ==
    /\ scored # <<>>
    /\ scored[1].keywords = <<Rust, Wasm>>
    /\ scored[1].entry.title = <<"R", "u", "s", "t">>
    /\ scored[1].entry.summary = <<>>
    /\ scored[1].min_score = [num |-> 1, den |-> 2]
    /\ scored[1].accepted

(***************************************************************************)
(* The legacy run itself.  The environment is configured.                  *)
(***************************************************************************)

\* feeds.json: the keywords of the feeds.
FeedKeywords == [f \in FeedIds |-> IF f = "f1" THEN <<Rust, Wasm>> ELSE <<>>]

\* entry.get('id', entry.get('link', ''))
EntryGuid(entry) ==
    IF entry.id # Absent THEN entry.id
    ELSE IF entry.link # Absent THEN entry.link
    ELSE ""

\* What a feed can serve to the legacy run: an entry with an id and a link
\* that names rust; an entry with a link and no text; an entry with a link
\* that names rust and wasm.
LegacyEntries ==
    { [id |-> "g1", link |-> "l1", title |-> <<"R", "u", "s", "t">>,
       summary |-> <<>>],
      [id |-> Absent, link |-> "l2", title |-> <<>>, summary |-> <<>>],
      [id |-> Absent, link |-> "l3", title |-> Rust, summary |-> Wasm] }

\* feed.entries[:20]
MostRecent(entries) ==
    SubSeq(entries, 1, IF Len(entries) < EntryCap THEN Len(entries) ELSE EntryCap)

\* The limit is reached only when it is passed.
LimitPassed(posts_this_run, max_posts) == posts_this_run > max_posts

\* posts_this_run >= max_posts
LimitReached(posts_this_run, max_posts) == posts_this_run >= max_posts

\* The guid is tracked whether or not the post succeeded.
TrackAttempted(posted_guids, guid, ok) == posted_guids \cup {guid}

\* if post_to_slack(...): posted_guids.add(guid)
TrackPosted(posted_guids, guid, ok) ==
    IF ok THEN posted_guids \cup {guid} ELSE posted_guids

\* Every call of post_to_slack counts.
CountAttempt(posts_this_run, ok) == posts_this_run + 1

\* if post_to_slack(...): posts_this_run += 1
CountPost(posts_this_run, ok) == IF ok THEN posts_this_run + 1 ELSE posts_this_run

\* The loop over the entries of one feed.  acc.posted_guids and
\* acc.posts_this_run are the variables of main; acc.trace lists the entries
\* looked at, each with what became of it; acc.attempts counts the calls of
\* post_to_slack.  The transport refuses the call whose number is refused.
RECURSIVE LegacyEntryLoop(_, _, _, _, _)
LegacyEntryLoop(entries, feed, cfg, refused, acc) ==
    IF entries = <<>> THEN acc
    ELSE
        LET entry == Head(entries)
            rest == Tail(entries)
            guid == EntryGuid(entry)
            Seen(verdict) ==
                Append(acc.trace, [feed |-> feed, guid |-> guid, verdict |-> verdict])
        IN
        IF guid = "" THEN
            LegacyEntryLoop(rest, feed, cfg, refused,
                            [acc EXCEPT !.trace = Seen("no_guid")])
        ELSE IF guid \in acc.posted_guids THEN
            LegacyEntryLoop(rest, feed, cfg, refused,
                            [acc EXCEPT !.trace = Seen("duplicate")])
        ELSE IF ~Relevant(CalculateRelevance(entry, FeedKeywords[feed]),
                          cfg.min_relevance_score) THEN
            LegacyEntryLoop(rest, feed, cfg, refused,
                            [acc EXCEPT !.trace = Seen("low")])
        ELSE IF LimitReached(acc.posts_this_run, cfg.max_posts_per_run) THEN
            [acc EXCEPT !.trace = Seen("limit")]
        ELSE
            LET ok == acc.attempts + 1 # refused IN
            LegacyEntryLoop(rest, feed, cfg, refused,
                            [acc EXCEPT
                                !.trace = Seen(IF ok THEN "posted" ELSE "failed"),
                                !.attempts = @ + 1,
                                !.posted_guids = TrackPosted(@, guid, ok),
                                !.posts_this_run = CountPost(@, ok)])

\* The loop over config['feeds'].
RECURSIVE LegacyFeedLoop(_, _, _, _, _)
LegacyFeedLoop(order, served, cfg, refused, acc) ==
    IF order = <<>> THEN acc
    ELSE LegacyFeedLoop(Tail(order), served, cfg, refused,
                        LegacyEntryLoop(MostRecent(served[Head(order)]),
                                        Head(order), cfg, refused, acc))

\* The guids the feeds of this model can list.
FeedGuids == { EntryGuid(e) : e \in LegacyEntries }

\* The guids tracked by runs long ago, which no feed lists any more.
OldGuids(n) == { ToString(i) : i \in 1..n }

RECURSIVE DropSome(_, _)
DropSome(set, n) ==
    IF n = 0 \/ set = {} THEN set
    ELSE DropSome(set \ {CHOOSE x \in set : TRUE}, n - 1)

\* Nothing is dropped.
KeepAll(posted_guids) == {posted_guids}

\* list(posted_guids)[-1000:]: a set has no order of its own, so any 1000
\* of the guids are kept.  Every choice among the guids the feeds list is
\* made; among the other guids, which no run meets again, one choice stands
\* for all.
KeepLast(posted_guids) ==
    IF Cardinality(posted_guids) <= TrackLimit THEN {posted_guids}
    ELSE
        LET over == Cardinality(posted_guids) - TrackLimit
            listed == posted_guids \cap FeedGuids
            others == posted_guids \ FeedGuids
        IN { (listed \ D) \cup DropSome(others, over - Cardinality(D)) :
                D \in { D \in SUBSET listed :
                           /\ Cardinality(D) <= over
                           /\ over - Cardinality(D) <= Cardinality(others) } }

\* main of main.py, run once on the tracking file and the settings that
\* InitLegacy draws.
LegacyRun ==
    /\ lastOp = "none"
    /\ \E s1 \in SeqsUpTo(LegacyEntries, MaxLegacyEntries) :
       \E s2 \in SeqsUpTo(LegacyEntries, MaxLegacyEntries - Len(s1)) :
       \E refused \in 0..MaxLegacyEntries :
       \E out \in {LegacyFeedLoop(EnabledFeeds(feeds),
                                  [f \in FeedIds |-> IF f = "f1" THEN s1 ELSE s2],
                                  settings, refused,
                                  [posted_guids |-> tracked, posts_this_run |-> 0,
                                   trace |-> <<>>, attempts |-> 0])} :
        /\ tracked' \in KeepLast(out.posted_guids)
        /\ stats' = [total_items_posted |-> stats.total_items_posted + out.posts_this_run,
                     last_run_posted |-> out.posts_this_run]
        /\ trace' = out.trace
        /\ postAttempts' = out.attempts
        /\ posts' = posts + out.posts_this_run
    /\ runs' = runs + 1
    /\ lastOp' = "legacy"
    /\ exitCode' = 0
    /\ refusedEarlier' =
          refusedEarlier \cup { trace[k].guid : k \in { i \in 1..Len(trace) :
                                                         trace[i].verdict = "failed" } }
    /\ UNCHANGED <<feeds, now, settings, scored>>
    /\ UNCHANGED <<published, history, request, log>>
    /\ UNCHANGED <<fetchVars, reminderVars, faultVars, otherVars>>

\* The tracking file is absent, or holds a guid the feeds still list, or
\* lacks one guid to be full, or is full, or holds one guid more than a run
\* leaves; the settings are drawn.
InitLegacy ==
    /\ feeds = [f \in FeedIds |-> TRUE]
    /\ articles = <<>>
    /\ lastUpdated = 0
    /\ published = <<>>
    /\ history = <<>>
    /\ now = 0
    /\ uuids = 0
    /\ lastOp = "none"
    /\ exitCode = 0
    /\ postAttempts = 0
    /\ request = <<>>
    /\ aged = {}
    /\ again = <<>>
    /\ everStored = {}
    /\ log = <<>>
    /\ runs = 0
    /\ ReminderIdle
    /\ FaultIdle
    /\ OtherIdle
    /\ \E before \in {{}, {"g1"}, OldGuids(TrackLimit - 1),
                       OldGuids(TrackLimit - 1) \cup {"g1"},
                       OldGuids(TrackLimit + 1)} :
        /\ tracked = before
        /\ stats = [total_items_posted |-> Cardinality(before),
                    last_run_posted |-> 0]
        /\ posts = Cardinality(before)
    /\ trace = <<>>
    /\ \E min_score \in {[num |-> 1, den |-> 2], [num |-> 3, den |-> 4]},
          max_posts \in 0..MaxLimit :
        settings = [min_relevance_score |-> min_score,
                    max_posts_per_run |-> max_posts]
    /\ scored = <<>>
    /\ refusedEarlier = {}

NextLegacy == LegacyRun

SpecLegacy == InitLegacy /\ [][NextLegacy]_vars

\* The post attempts of the trace, in order.
Attempts(tr) == SelectSeq(tr, LAMBDA e : e.verdict \in {"posted", "failed"})

\* The posts accepted among the first n attempts.
Accepted(tr, n) ==
    Cardinality({ k \in 1..n : Attempts(tr)[k].verdict = "posted" })

\* C13: a legacy run posts at most max_posts_per_run items, all feeds
\* together, and makes no post attempt once that many were posted, in the
\* feed that made the last of them or in a later feed.
C13_PostLimit ==
    lastOp = "legacy" =>
        /\ stats.last_run_posted <= settings.max_posts_per_run
        /\ stats.last_run_posted = Accepted(trace, Len(Attempts(trace)))
        /\ postAttempts = Len(Attempts(trace))
        /\ \A k \in 1..Len(Attempts(trace)) :
              Accepted(trace, k - 1) < settings.max_posts_per_run

\* A legacy run has posted as many items as the limit allows and has then
\* met a new, relevant entry in the same feed and in a later feed.
C13_Witness ==
    /\ lastOp = "legacy"
    /\ stats.last_run_posted = settings.max_posts_per_run
    /\ stats.last_run_posted > 0
    /\ \E i, j \in 1..Len(trace) :
        /\ trace[i].verdict = "limit" /\ trace[i].feed = "f1"
        /\ trace[j].verdict = "limit" /\ trace[j].feed = "f2"

\* C14: after a legacy run posted_items holds at most 1000 guids, however
\* many were tracked before the run and posted by it.
C14_TrackedBound == lastOp = "legacy" => Cardinality(tracked) <= TrackLimit

\* A legacy run has posted an item when 1000 guids or more were tracked.
C14_Witness ==
    /\ lastOp = "legacy"
    /\ stats.last_run_posted > 0
    /\ stats.total_items_posted > TrackLimit
    /\ Cardinality(tracked) = TrackLimit

\* The entries of the trace with one of the verdicts.
Count(tr, verdicts) ==
    Cardinality({ k \in 1..Len(tr) : tr[k].verdict \in verdicts })

\* The run has looked at three entries, all of one feed: one whose guid was
\* tracked, one below the minimum relevance, and one new and relevant.
Scenario ==
    /\ lastOp = "legacy"
    /\ Len(trace) = 3
    /\ \A k \in 1..Len(trace) : trace[k].feed = trace[1].feed
    /\ Count(trace, {"duplicate"}) = 1
    /\ Count(trace, {"low"}) = 1
    /\ Count(trace, {"posted", "failed", "limit"}) = 1

Str == [type |-> "string"]

\* The name is not required.
RequiredWithoutName == {"id", "url"}

\* required_fields
RequiredFields == {"id", "name", "url"}

\* What an item of the array 'feeds' can be: a string, or an object with
\* some of the required keys.
FeedValues == {Str} \cup [type : {"object"}, keys : SUBSET {"id", "name", "url"}]

\* What the argument can parse to: an array, a string, an object without
\* 'feeds', an object whose 'feeds' is a string, an object with only an
\* empty array 'feeds', an object with 'settings' and an array 'feeds'.
SubmittedValues ==
    { [type |-> "array", items |-> <<>>], Str,
      [type |-> "object", keys |-> {}],
      [type |-> "object", keys |-> {"settings"}],
      [type |-> "object", keys |-> {"feeds"}, feeds |-> Str],
      [type |-> "object", keys |-> {"feeds"},
       feeds |-> [type |-> "array", items |-> <<>>]] }
    \cup [type : {"object"}, keys : {{"feeds", "settings"}},
          feeds : [type : {"array"}, items : SeqsUpTo(FeedValues, MaxFeeds)]]

\* sys.argv: no argument, a text that is no JSON, or the text of a value.
Arguments ==
    { [given |-> FALSE], [given |-> TRUE, json |-> FALSE] }
    \cup [given : {TRUE}, json : {TRUE}, value : SubmittedValues]

\* validate_feeds: TRUE, or FALSE where it raises ValueError.
ValidateFeeds(feeds_data) ==
    /\ feeds_data.type = "object"
    /\ "feeds" \in feeds_data.keys
    /\ feeds_data.feeds.type = "array"
    /\ \A i \in 1..Len(feeds_data.feeds.items) :
        LET feed == feeds_data.feeds.items[i] IN
        /\ feed.type = "object"
        /\ \A field \in RequiredFields : field \in feed.keys

\* main of update_feeds.py.
UpdateFeedsRun ==
    \E arg \in Arguments :
        /\ submitted' = <<arg>>
        /\ lastOp' = "update"
        /\ postAttempts' = 0
        /\ IF ~arg.given THEN exitCode' = 1 /\ feeds' = feeds
           ELSE IF ~arg.json THEN exitCode' = 1 /\ feeds' = feeds
           ELSE IF ~ValidateFeeds(arg.value) THEN exitCode' = 1 /\ feeds' = feeds
           ELSE exitCode' = 0 /\ feeds' = arg.value
        /\ UNCHANGED <<now, resolved, procs, overlapped>>
        /\ UNCHANGED <<fetchVars, publishVars, reminderVars, faultVars, legacyVars>>

\* feeds.json holds one feed.
InitUpdate ==
    /\ feeds = [type |-> "object", keys |-> {"feeds", "settings"},
                feeds |-> [type |-> "array",
                           items |-> <<[type |-> "object",
                                        keys |-> {"id", "name", "url"}]>>]]
    /\ articles = <<>>
    /\ lastUpdated = 0
    /\ published = <<>>
    /\ history = <<>>
    /\ now = 0
    /\ uuids = 0
    /\ posts = 0
    /\ lastOp = "none"
    /\ exitCode = 0
    /\ postAttempts = 0
    /\ request = <<>>
    /\ aged = {}
    /\ again = <<>>
    /\ everStored = {}
    /\ log = <<>>
    /\ runs = 0
    /\ ReminderIdle
    /\ FaultIdle
    /\ OtherIdle
    /\ LegacyIdle

NextUpdate == UpdateFeedsRun

SpecUpdate == InitUpdate /\ [][NextUpdate]_vars

\* C22: an update-feeds run whose argument parses to an object with an
\* array 'feeds' of objects that each have id, name and url exits 0 and
\* leaves that value in feeds.json; every other run exits non-zero and
\* leaves feeds.json as it was.
C22_ValidatedUpdate ==
    [][(lastOp' = "update" /\ submitted' # <<>>) =>
          LET arg == submitted'[1]
              valid ==
                  /\ arg.given
                  /\ arg.json
                  /\ arg.value.type = "object"
                  /\ "feeds" \in arg.value.keys
                  /\ arg.value.feeds.type = "array"
                  /\ \A i \in 1..Len(arg.value.feeds.items) :
                        /\ arg.value.feeds.items[i].type = "object"
                        /\ {"id", "name", "url"} \subseteq arg.value.feeds.items[i].keys
          IN
          /\ valid => (exitCode' = 0 /\ feeds' = arg.value)
          /\ ~valid => (exitCode' # 0 /\ feeds' = feeds)]_vars

\* After a valid update that changed feeds.json, a run was given a feed
\* without a name, has failed, and feeds.json holds the earlier value.
C22_Witness ==
    /\ lastOp = "update"
    /\ exitCode = 1
    /\ Len(feeds.feeds.items) = 2
    /\ submitted[1].given
    /\ submitted[1].json
    /\ submitted[1].value.type = "object"
    /\ "feeds" \in submitted[1].value.keys
    /\ submitted[1].value.feeds.type = "array"
    /\ Len(submitted[1].value.feeds.items) = 1
    /\ submitted[1].value.feeds.items[1] =
          [type |-> "object", keys |-> {"id", "url"}]

(***************************************************************************)
(* The identity of an entry: the fetch-and-merge run and the legacy run    *)
(* are served the same entry.                                              *)
(***************************************************************************)

\* What the keys 'id' and 'link' of an entry can hold: nothing, the empty
\* string, or one of three strings.
IdentityKeys == {Absent, "", "k1", "k2", "k3"}

IdentityEntries ==
    [id : IdentityKeys, link : IdentityKeys, published : {NoDate},
     updated : {NoDate}]

\* A fetch run whose first feed serves the entry, and the guid the loop of
\* the legacy run gives it (an empty guid: the entry is skipped).
ResolveEntry ==
    \E entry \in IdentityEntries :
    \E served \in {[f \in FeedIds |-> IF f = "f1"
                                      THEN [ok |-> TRUE, entries |-> <<entry>>]
                                      ELSE Failed]} :
    \E out \in {FetchMain(feeds, articles, served, now, uuids)} :
    \E twice \in {FetchMain(feeds, out.arts, served, now, out.uuids)} :
        /\ twice.uuids <= MaxIds + 1
        /\ articles' = out.arts
        /\ lastUpdated' = now
        /\ uuids' = out.uuids
        /\ aged' = out.aged
        /\ again' = twice.arts
        /\ everStored' = Remember(everStored, out.arts)
        /\ resolved' = <<[entry |-> entry,
                          stored |-> [i \in 1..Len(out.arts) |-> out.arts[i].link],
                          reused |-> \E i \in 1..Len(out.arts) :
                                        \E j \in 1..Len(articles) :
                                            out.arts[i] = articles[j],
                          guid |-> EntryGuid(entry)]>>
        /\ lastOp' = "fetch"
        /\ exitCode' = 0
        /\ postAttempts' = 0
        /\ UNCHANGED <<feeds, now, procs, overlapped, submitted>>
        /\ UNCHANGED <<publishVars, reminderVars, faultVars, legacyVars>>

InitIdentity == InitFetch

NextIdentity == ResolveEntry

SpecIdentity == InitIdentity /\ [][NextIdentity]_vars

\* C23: the identity of an entry is its id when that is non-empty, else its
\* link; an entry with neither is skipped.  The fetch-and-merge run stores
\* the entry under that identity and the legacy run gives it that guid.
C23_IdentityIdThenLink ==
    resolved # <<>> =>
        LET e == resolved[1].entry
            identity == IF e.id \notin {Absent, ""} THEN e.id
                        ELSE IF e.link \notin {Absent, ""} THEN e.link
                        ELSE ""
        IN
        /\ resolved[1].guid = identity
        /\ resolved[1].stored = IF identity = "" THEN <<>> ELSE <<identity>>

(***************************************************************************)
(* Two publish runs side by side: main of scripts/publish_articles.py in   *)
(* its three steps, loading the stores, posting, and saving the published  *)
(* store.  Each run keeps what it loaded.                                  *)
(***************************************************************************)

Processes == {1, 2}

\* A run that has not started.
NotStarted == [pc |-> "idle", ids |-> <<>>, published |-> <<>>,
               history |-> <<>>, ts |-> 0]

\* The ids a run is given: none, one no store holds, one or two the article
\* store holds.
OverlapRequests == {<<>>, <<0>>, <<1>>, <<2>>, <<0, 1>>, <<1, 2>>}

\* The history is replaced by the record of the run.
OnlyThisRecord(h, record) == <<record>>

\* history.append(...), history[-30:]
AppendRecord(h, record) == KeepRecent(Append(h, record))

\* A run is between its load and its save.
InProgress(proc) == proc.pc \in {"loaded", "posted"}

\* load_articles, load_json(PUBLISHED_FILE), the selection of the articles.
LoadStores(p) ==
    /\ procs[p].pc = "idle"
    /\ \E article_ids \in OverlapRequests :
        LET found == ArticlesToPublish(articles, article_ids) IN
        /\ request' = article_ids
        /\ IF NothingToPublish(found) THEN
               /\ procs' = [procs EXCEPT ![p] = [@ EXCEPT !.pc = "failed",
                                                          !.ids = article_ids]]
               /\ exitCode' = 1
               /\ UNCHANGED overlapped
           ELSE
               /\ procs' = [procs EXCEPT ![p] =
                                [pc |-> "loaded", ids |-> article_ids,
                                 published |-> published, history |-> history,
                                 ts |-> 0]]
               /\ overlapped' =
                      (overlapped \/ \E q \in Processes \ {p} : InProgress(procs[q]))
               /\ UNCHANGED exitCode
    /\ runs' = runs + 1
    /\ lastOp' = "publish"
    /\ postAttempts' = 0
    /\ UNCHANGED <<feeds, now, published, history, posts, log, resolved, submitted>>
    /\ UNCHANGED <<fetchVars, reminderVars, faultVars, legacyVars>>

\* publish_to_slack: the post is accepted, or the API error ends the run.
PostDigest(p) ==
    /\ procs[p].pc = "loaded"
    /\ \E accepted \in BOOLEAN :
        IF accepted THEN
            /\ posts' = posts + 1
            /\ procs' = [procs EXCEPT ![p] = [@ EXCEPT !.pc = "posted",
                                                       !.ts = posts + 1]]
            /\ log' = Append(log, PublishRecord(procs[p].ids, posts + 1, now))
            /\ UNCHANGED exitCode
        ELSE
            /\ procs' = [procs EXCEPT ![p] = [@ EXCEPT !.pc = "failed"]]
            /\ exitCode' = 1
            /\ UNCHANGED <<posts, log>>
    /\ lastOp' = "publish"
    /\ postAttempts' = 1
    /\ UNCHANGED <<feeds, now, published, history, request, runs>>
    /\ UNCHANGED <<resolved, overlapped, submitted>>
    /\ UNCHANGED <<fetchVars, reminderVars, faultVars, legacyVars>>

\* The published store is written from what the run loaded.
SavePublished(p) ==
    /\ procs[p].pc = "posted"
    /\ published' \in
           RemoveDuplicates(ExtendPublished(procs[p].published, procs[p].ids,
                                ArticlesToPublish(articles, procs[p].ids)))
    /\ history' = AppendRecord(procs[p].history,
                               PublishRecord(procs[p].ids, procs[p].ts, now))
    /\ procs' = [procs EXCEPT ![p] = [@ EXCEPT !.pc = "done"]]
    /\ exitCode' = 0
    /\ lastOp' = "publish"
    /\ UNCHANGED <<feeds, now, posts, log, request, runs, postAttempts>>
    /\ UNCHANGED <<resolved, overlapped, submitted>>
    /\ UNCHANGED <<fetchVars, reminderVars, faultVars, legacyVars>>

\* The article store holds two articles; nothing is published.
InitOverlap ==
    /\ feeds = [f \in FeedIds |-> TRUE]
    /\ articles = FirstFetch.arts
    /\ again = FirstFetch.arts
    /\ uuids = Len(FirstFetch.arts)
    /\ everStored = Stored(FirstFetch.arts)
    /\ lastOp = "fetch"
    /\ lastUpdated = 0
    /\ aged = {}
    /\ now = 0
    /\ history = <<>>
    /\ log = <<>>
    /\ posts = 0
    /\ published = <<>>
    /\ exitCode = 0
    /\ postAttempts = 0
    /\ request = <<>>
    /\ runs = 0
    /\ ReminderIdle
    /\ FaultIdle
    /\ resolved = <<>>
    /\ procs = [p \in Processes |-> NotStarted]
    /\ overlapped = FALSE
    /\ submitted = <<>>
    /\ LegacyIdle

NextOverlap == \E p \in Processes : LoadStores(p) \/ PostDigest(p) \/ SavePublished(p)

SpecOverlap == InitOverlap /\ [][NextOverlap]_vars

\* The published store holds the ids and the record of run p.
Kept(p) ==
    /\ Range(procs[p].ids) \subseteq Range(published)
    /\ PublishRecord(procs[p].ids, procs[p].ts, now) \in Range(history)

\* C24: when two publish runs that did not overlap have both saved, the
\* published store holds the ids of both batches and the history holds both
\* records; a store that lacks the ids or the record of a run that saved
\* means that the two runs overlapped.
C24_NoLossWithoutOverlap ==
    ((\A p \in Processes : procs # <<>> /\ procs[p].pc = "done") /\ ~overlapped)
        => \A p \in Processes : Kept(p)

\* Two runs overlapped, both posts were accepted and both runs saved, and
\* the published store lacks an id and the record of one of them.
C24_Witness ==
    /\ procs # <<>>
    /\ overlapped
    /\ posts = 2
    /\ \A p \in Processes : procs[p].pc = "done"
    /\ \E p \in Processes :
        /\ ~(Range(procs[p].ids) \subseteq Range(published))
        /\ PublishRecord(procs[p].ids, procs[p].ts, now) \notin Range(history)

(***************************************************************************)
(* The legacy run, run again: main of main.py on the tracking file that    *)
(* the run before it left.                                                 *)
(***************************************************************************)

\* What a feed serves from one run to the next: nothing, the entry with the
\* guid g1, the entry with the guid l3, or both.
RetryServes ==
    LET a == CHOOSE e \in LegacyEntries : EntryGuid(e) = "g1"
        c == CHOOSE e \in LegacyEntries : EntryGuid(e) = "l3"
    IN {<<>>, <<a>>, <<c>>, <<a, c>>}

\* main of main.py.
LegacyRunAgain ==
    /\ runs < MaxRuns
    /\ \E s1 \in RetryServes, s2 \in RetryServes :
       \E refused \in 0..MaxRefused :
       \E out \in {LegacyFeedLoop(EnabledFeeds(feeds),
                                  [f \in FeedIds |-> IF f = "f1" THEN s1 ELSE s2],
                                  settings, refused,
                                  [posted_guids |-> tracked, posts_this_run |-> 0,
                                   trace |-> <<>>, attempts |-> 0])} :
        /\ tracked' \in KeepLast(out.posted_guids)
        /\ stats' = [total_items_posted |-> stats.total_items_posted + out.posts_this_run,
                     last_run_posted |-> out.posts_this_run]
        /\ trace' = out.trace
        /\ postAttempts' = out.attempts
        /\ posts' = posts + out.posts_this_run
    /\ runs' = runs + 1
    /\ lastOp' = "legacy"
    /\ exitCode' = 0
    /\ refusedEarlier' =
          refusedEarlier \cup { trace[k].guid : k \in { i \in 1..Len(trace) :
                                                         trace[i].verdict = "failed" } }
    /\ UNCHANGED <<feeds, now, settings, scored>>
    /\ UNCHANGED <<published, history, request, log>>
    /\ UNCHANGED <<fetchVars, reminderVars, faultVars, otherVars>>

\* No tracking file, and the settings main falls back to.
InitRetry ==
    /\ InitFetch
    /\ settings = [min_relevance_score |-> DefaultMinScore,
                   max_posts_per_run |-> DefaultMaxPosts]

NextRetry == LegacyRunAgain

SpecRetry == InitRetry /\ [][NextRetry]_vars

\* The guids of the entries that the run posted before it came to entry k.
PostedBefore(t, k) == { t[i].guid : i \in { i \in 1..(k - 1) : t[i].verdict = "posted" } }

\* C25: in a legacy run a post is attempted for an entry only if its guid
\* is neither in the tracking file nor posted earlier in the run, and an
\* entry with such a guid is passed over; no guid is posted twice in one
\* run; the run leaves tracked the guids it found tracked and those it
\* posted, so a guid whose post failed is not tracked.
C25_PostOncePerGuid ==
    [][lastOp' = "legacy" =>
          /\ \A k \in 1..Len(trace') :
                /\ trace'[k].verdict \in {"posted", "failed"} =>
                       trace'[k].guid \notin tracked \cup PostedBefore(trace', k)
                /\ trace'[k].guid \in tracked \cup PostedBefore(trace', k) =>
                       trace'[k].verdict = "duplicate"
          /\ \A i, j \in 1..Len(trace') :
                (/\ trace'[i].verdict = "posted"
                 /\ trace'[j].verdict = "posted"
                 /\ trace'[i].guid = trace'[j].guid) => i = j
          /\ tracked' = tracked \cup PostedBefore(trace', Len(trace') + 1)]_vars

\* A guid whose post failed in an earlier run, and in this run once more in
\* the first feed, is posted by this run in the second feed and passed
\* over after that.
C25_Witness ==
    /\ lastOp = "legacy"
    /\ \E i, j \in 1..Len(trace) :
        /\ i < j
        /\ trace[i].guid \in refusedEarlier
        /\ trace[i].verdict = "failed"
        /\ trace[j].guid = trace[i].guid
        /\ trace[j].feed # trace[i].feed
        /\ trace[j].verdict = "posted"
        /\ trace[j].guid \in tracked

(***************************************************************************)
(* Fetch, publish and reminder runs one after another, on one feed that    *)
(* lists one article.                                                      *)
(***************************************************************************)

\* The first feed fails, or serves the entry with the link l1 and no date;
\* the second feed fails.
LifecycleServes ==
    LET listed == CHOOSE e \in FeedEntries(0) :
                      e.link = "l1" /\ e.id = Absent /\ e.published = NoDate
    IN { [f \in FeedIds |-> IF f = "f1" THEN s ELSE Failed] :
            s \in {Failed, [ok |-> TRUE, entries |-> <<listed>>]} }

\* main of fetch_articles.py.
LifecycleFetch ==
    \E served \in LifecycleServes :
    \E out \in {FetchMain(feeds, articles, served, now, uuids)} :
    \E twice \in {FetchMain(feeds, out.arts, served, now, out.uuids)} :
        /\ twice.uuids <= MaxIds
        /\ articles' = out.arts
        /\ lastUpdated' = now
        /\ uuids' = out.uuids
        /\ aged' = out.aged
        /\ again' = twice.arts
        /\ everStored' = Remember(everStored, out.arts)
        /\ lastOp' = "fetch"
        /\ exitCode' = 0
        /\ postAttempts' = 0
        /\ UNCHANGED <<feeds, now>>
        /\ UNCHANGED <<publishVars, reminderVars, faultVars, legacyVars, otherVars>>

InitLifecycle == InitFetch

NextLifecycle == LifecycleFetch \/ PublishRun \/ ReminderRun

SpecLifecycle == InitLifecycle /\ [][NextLifecycle]_vars

\* C26: once the article of a link has been published, no reminder run
\* returns an article with that link as unpublished, also when the article
\* was dropped from the store and admitted again.
C26_PublishedFollowsLink ==
    lastOp = "reminder" =>
        \A i \in 1..Len(reminded) :
            ~\E e \in everStored :
                /\ e[1] = reminded[i].link
                /\ e[2] \in Range(published)

====
